---------------------------- MODULE Spec2Model ----------------------------
(***************************************************************************)
(* Model of the two batch processors of the repository:                    *)
(*   RatesProcessor  (src/Parameta/rates_test/scripts/main.py)             *)
(*   StdevProcessor  (src/Parameta/stdev_test/scripts/main.py)             *)
(*                                                                         *)
(* Tables (pandas DataFrames) are sequences of records, one per row, in    *)
(* row order.  A nullable cell is a sequence of length at most one: <<>>   *)
(* is NaN/None, <<v>> is the value v.  Floats are exact fractions          *)
(* [n, d] in lowest terms, so float rounding is abstracted away.           *)
(* Timestamps are integers counting ticks of 1/TicksPerHour hour.          *)
(***************************************************************************)
EXTENDS Integers, Sequences, FiniteSets, TLC

VARIABLES rpc, ccy_df, price_df, spot_df, rates_result_df,
          spc, snap_file, df, window, stdev_result_df

rates_vars == <<rpc, ccy_df, price_df, spot_df, rates_result_df>>
stdev_vars == <<spc, snap_file, df, window, stdev_result_df>>
vars == <<rpc, ccy_df, price_df, spot_df, rates_result_df,
          spc, snap_file, df, window, stdev_result_df>>

(***************************************************************************)
(* Bounds of the model.                                                    *)
(***************************************************************************)
\* ticks per hour: timestamps are not aligned to the hour
TicksPerHour == 2
\* timestamps of the price and spot-rate tables range over 0..MaxTime
MaxTime == 3
\* total number of rows of the three tables load_data reads
MaxRows == 3
\* hourly ticks spanned by the snapshots of the first security
MaxTicks == 22
\* snapshots of the second security
MaxOther == 2

(***************************************************************************)
(* Nullable cells and exact fractions.                                     *)
(***************************************************************************)
NA == <<>>
Some(v) == <<v>>
isna(c) == c = <<>>
Val(c) == c[1]

RECURSIVE Gcd(_, _)
Gcd(a, b) == IF b = 0 THEN a ELSE Gcd(b, a % b)

Abs(a) == IF a < 0 THEN -a ELSE a

\* the fraction n/d (d # 0) in lowest terms with a positive denominator
Rat(n, d) ==
    LET g == Gcd(Abs(n), Abs(d))
        s == IF d < 0 THEN -1 ELSE 1
    IN  [n |-> (s * n) \div g, d |-> (s * d) \div g]

RatAdd(a, b) == Rat(a.n * b.d + b.n * a.d, a.d * b.d)

\* float division; the conversion factors of the model are not zero, and a
\* zero divisor is given no number
RatDiv(a, b) == IF b.n = 0 THEN NA ELSE Some(Rat(a.n * b.d, a.d * b.n))

(***************************************************************************)
(* Sorting: DataFrame.sort_values on several columns is a stable sort.     *)
(***************************************************************************)
\* s is a sequence of [k, row] sorted by k; x goes after every item with k <= x.k
RECURSIVE InsertSorted(_, _)
InsertSorted(s, x) ==
    IF s = <<>> THEN <<x>>
    ELSE IF s[Len(s)].k <= x.k THEN Append(s, x)
    ELSE Append(InsertSorted(SubSeq(s, 1, Len(s) - 1), x), s[Len(s)])

RECURSIVE SortKeyed(_)
SortKeyed(s) ==
    IF s = <<>> THEN <<>>
    ELSE InsertSorted(SortKeyed(SubSeq(s, 1, Len(s) - 1)), s[Len(s)])

\* the rows of s in ascending order of their keys (keys[i] is the key of s[i]),
\* rows of equal key in their order in s
sort_values(s, keys) ==
    LET keyed == SortKeyed([i \in 1..Len(s) |-> [k |-> keys[i], row |-> s[i]]])
    IN  [i \in 1..Len(s) |-> keyed[i].row]

(***************************************************************************)
(* RatesProcessor: input domains.                                          *)
(***************************************************************************)
\* the currency pairs, in the order in which sort_values ranks them
Pairs == <<"EURUSD", "USDJPY">>
PairSet == {Pairs[i] : i \in 1..Len(Pairs)}
PairRank(p) == CHOOSE i \in 1..Len(Pairs) : Pairs[i] = p

Times == 0..MaxTime
FactorValues == {100}

\* the k-th row of the price file carries the price 11000 (k odd) or 150
PriceOf(k) == Rat(IF k % 2 = 1 THEN 11000 ELSE 150, 1)

\* the k-th row of the spot-rate file carries its own rate: 1.2, 1.1, 1.0, ...
RateOf(k) == Rat(13 - k, 10)

PriceRows == [timestamp : Times, ccy_pair : PairSet, price : {PriceOf(1), PriceOf(2)}]
RowKeys == [timestamp : Times, ccy_pair : PairSet]
RuleRows == [ccy_pair : PairSet,
             convert_price : {NA, Some(TRUE), Some(FALSE)},
             conversion_factor : {NA} \cup {Some(Rat(v, 1)) : v \in FactorValues}]

(***************************************************************************)
(* RatesProcessor._get_recent_spot_rate                                    *)
(***************************************************************************)
\* pd.Timedelta("1h")
Tolerance == TicksPerHour

\* sort_values(["timestamp", "ccy_pair"])
TimePairKey(r) == r.timestamp * (Len(Pairs) + 1) + PairRank(r.ccy_pair)

\* a lookback of exactly the tolerance is rejected
StrictTolerance(T, S) == T - S < Tolerance
\* the tolerance test of merge_asof: the match is dropped when diff > tolerance
WithinTolerance(T, S) == ~(T - S > Tolerance)

\* direction="backward" with exact matches allowed: right key <= left key
Backward(l, r) == r.timestamp <= l.timestamp

\* by="ccy_pair"
SameBy(l, r) == r.ccy_pair = l.ccy_pair

\* pd.merge_asof(left, right, by=, on=, direction="backward", tolerance=):
\* one row per left row, in left order; the candidate is the LAST row of the
\* sorted right table with the same by-key and an on-key not after the left
\* row's; it is dropped when it is older than the tolerance.
merge_asof(left, right) ==
    [i \in 1..Len(left) |->
        LET l == left[i]
            cand == {j \in 1..Len(right) : SameBy(l, right[j]) /\ Backward(l, right[j])}
            found == IF cand = {} THEN 0
                     ELSE CHOOSE j \in cand : \A k \in cand : k <= j
            ok == found # 0 /\ WithinTolerance(l.timestamp, right[found].timestamp)
        IN  [timestamp |-> l.timestamp, ccy_pair |-> l.ccy_pair, price |-> l.price,
             spot_mid_rate |-> IF ok THEN Some(right[found].spot_mid_rate) ELSE NA]]

SortedSpot(s) == sort_values(s, [i \in 1..Len(s) |-> TimePairKey(s[i])])
SortedPrice(p) == sort_values(p, [i \in 1..Len(p) |-> TimePairKey(p[i])])

get_recent_spot_rate(prices, spots) == merge_asof(SortedPrice(prices), SortedSpot(spots))

(***************************************************************************)
(* RatesProcessor.compute_new_prices                                       *)
(***************************************************************************)
RECURSIVE Concat(_)
Concat(ss) == IF ss = <<>> THEN <<>> ELSE Head(ss) \o Concat(Tail(ss))

JoinRule(l, cp, cf) ==
    [timestamp |-> l.timestamp, ccy_pair |-> l.ccy_pair, price |-> l.price,
     spot_mid_rate |-> l.spot_mid_rate, convert_price |-> cp, conversion_factor |-> cf]

\* how="inner": a left row without a rule row is dropped
inner_merge(left, right) ==
    Concat([i \in 1..Len(left) |->
        LET m == SelectSeq(right, LAMBDA r : r.ccy_pair = left[i].ccy_pair)
        IN  [j \in 1..Len(m) |->
                JoinRule(left[i], m[j].convert_price, m[j].conversion_factor)]])

\* merged.merge(self.ccy_df, on="ccy_pair", how="left"): every left row is kept,
\* once per rule row of its pair, or once with absent rule fields when the
\* pair has no rule row
left_merge(left, right) ==
    Concat([i \in 1..Len(left) |->
        LET m == SelectSeq(right, LAMBDA r : r.ccy_pair = left[i].ccy_pair)
        IN  IF m = <<>> THEN <<JoinRule(left[i], NA, NA)>>
            ELSE [j \in 1..Len(m) |->
                    JoinRule(left[i], m[j].convert_price, m[j].conversion_factor)]])

\* mask = merged["convert_price"] == False  (NaN == False is False)
Mask(row) == row.convert_price = Some(FALSE)

One == Rat(1, 1)

\* only the conversion factor is replaced, as the comment above the mask says
ApplyMaskFactorOnly(row) ==
    IF Mask(row) THEN [row EXCEPT !.conversion_factor = Some(One)] ELSE row

\* merged.loc[mask, ["conversion_factor", "spot_mid_rate"]] = 1
ApplyMask(row) ==
    IF Mask(row)
    THEN [row EXCEPT !.conversion_factor = Some(One), !.spot_mid_rate = Some(One)]
    ELSE row

Nan == [kind |-> "nan"]
Float(x) == [kind |-> "float", num |-> x]
Str(s) == [kind |-> "str", text |-> s]

\* convert_price * spot_mid_rate: True counts as 1 and False as 0
BoolTimes(cp, rate) ==
    IF isna(cp) \/ isna(rate) THEN NA
    ELSE IF Val(cp) THEN rate ELSE Some(Rat(0, 1))

\* the sum is divided by the factor: price + rate / factor parenthesised wrongly
FinalPriceSumDivided(row) ==
    LET m == BoolTimes(row.convert_price, row.spot_mid_rate)
        q == IF isna(row.conversion_factor) \/ isna(m) THEN NA
             ELSE RatDiv(RatAdd(row.price, Val(m)), Val(row.conversion_factor))
    IN  IF isna(q) THEN Nan ELSE Float(Val(q))

\* (price / conversion_factor) + (convert_price * spot_mid_rate); NaN when an
\* operand is NaN
FinalPriceFormula(row) ==
    LET q == IF isna(row.conversion_factor) THEN NA
             ELSE RatDiv(row.price, Val(row.conversion_factor))
        m == BoolTimes(row.convert_price, row.spot_mid_rate)
    IN  IF isna(q) \/ isna(m) THEN Nan ELSE Float(RatAdd(Val(q), Val(m)))

RECURSIVE JoinStr(_, _)
\* sep.join(parts)
JoinStr(parts, sep) ==
    IF parts = <<>> THEN ""
    ELSE IF Len(parts) = 1 THEN parts[1]
    ELSE parts[1] \o sep \o JoinStr(Tail(parts), sep)

\* only the first missing column is reported
msgFirstOnly(row, target, others) ==
    LET missing_cols == SelectSeq(others, LAMBDA c : isna(row[c]))
    IN  IF missing_cols = <<>> THEN row[target]
        ELSE Str("missing " \o missing_cols[1])

\* msg(row) of fill_missing
msg(row, target, others) ==
    LET missing_cols == SelectSeq(others, LAMBDA c : isna(row[c]))
    IN  IF missing_cols = <<>> THEN row[target]
        ELSE Str("missing " \o JoinStr(missing_cols, ", "))

\* fill_missing(df, target, others): rows whose target is NaN get msg(row)
fill_missing(t, target, others) ==
    [i \in 1..Len(t) |->
        IF t[i][target] = Nan
        THEN [t[i] EXCEPT ![target] = msg(t[i], target, others)]
        ELSE t[i]]

DiagnosticColumns == <<"convert_price", "conversion_factor", "spot_mid_rate">>

WithFinalPrice(row) ==
    [timestamp |-> row.timestamp, ccy_pair |-> row.ccy_pair, price |-> row.price,
     spot_mid_rate |-> row.spot_mid_rate, convert_price |-> row.convert_price,
     conversion_factor |-> row.conversion_factor,
     final_price |-> FinalPriceFormula(row)]

\* the table compute_new_prices stores in result_df
NewPrices(prices, spots, rules) ==
    LET joined == left_merge(get_recent_spot_rate(prices, spots), rules)
        masked == [i \in 1..Len(joined) |-> ApplyMask(joined[i])]
        priced == [i \in 1..Len(masked) |-> WithFinalPrice(masked[i])]
    IN  fill_missing(priced, "final_price", DiagnosticColumns)

(***************************************************************************)
(* RatesProcessor: state machine.                                          *)
(***************************************************************************)
SeqsOfLen(S, n) == [1..n -> S]

PriceTable(keys) ==
    [k \in 1..Len(keys) |->
        [timestamp |-> keys[k].timestamp, ccy_pair |-> keys[k].ccy_pair,
         price |-> PriceOf(k)]]

SpotTable(keys) ==
    [k \in 1..Len(keys) |->
        [timestamp |-> keys[k].timestamp, ccy_pair |-> keys[k].ccy_pair,
         spot_mid_rate |-> RateOf(k)]]

\* load_data: the three files hold any tables of at most MaxRows rows together
Rates_load_data ==
    /\ rpc = "new"
    /\ spc = "new"
    /\ \E np \in 0..MaxRows :
       \E ns \in 0..(MaxRows - np) :
       \E nc \in 0..(MaxRows - np - ns) :
       \E p \in SeqsOfLen(RowKeys, np) :
       \E s \in SeqsOfLen(RowKeys, ns) :
       \E c \in SeqsOfLen(RuleRows, nc) :
          /\ price_df' = PriceTable(p)
          /\ spot_df' = SpotTable(s)
          /\ ccy_df' = c
    /\ rpc' = "loaded"
    /\ UNCHANGED <<rates_result_df, stdev_vars>>

\* compute_new_prices, with the sorting _get_recent_spot_rate does in place
compute_new_prices ==
    /\ rpc \in {"loaded", "computed"}
    /\ spot_df' = SortedSpot(spot_df)
    /\ price_df' = SortedPrice(price_df)
    /\ rates_result_df' = Some(NewPrices(price_df, spot_df, ccy_df))
    /\ rpc' = "computed"
    /\ UNCHANGED <<ccy_df, stdev_vars>>

NextRates == Rates_load_data \/ compute_new_prices

Init ==
    /\ rpc = "new"
    /\ ccy_df = <<>>
    /\ price_df = <<>>
    /\ spot_df = <<>>
    /\ rates_result_df = NA
    /\ spc = "new"
    /\ snap_file = <<>>
    /\ df = <<>>
    /\ window = 0
    /\ stdev_result_df = NA

SpecRates == Init /\ [][NextRates]_vars

(***************************************************************************)
(* StdevProcessor: input domains.                                          *)
(***************************************************************************)
Securities == <<101, 102>>

\* bid of the k-th hourly snapshot (k = 0, 1, ...) under value pattern p
BidOf(p, k) == IF p = 0 THEN k ELSE (k * k) % 7

Snapshot(sec, t, v) ==
    [security_id |-> sec, snap_time |-> t,
     bid |-> Some(v), mid |-> Some(2 * v + 10), ask |-> Some(20 + (v % 3))]

Patterns == {0, 1}
Defects == {"none", "offgrid_first", "offgrid_last", "duplicate"}

\* the snapshots of the first security: n hourly ticks from time 0, the tick
\* at position gap (0 = none) missing, plus the defect: a snapshot half way
\* between two ticks, or a second row for the first tick
FirstSecurity(n, gap, defect, p) ==
    LET ticks == SelectSeq([k \in 1..n |-> k - 1], LAMBDA k : gap = 0 \/ k # gap)
        rows == [i \in 1..Len(ticks) |->
                    Snapshot(Securities[1], ticks[i] * TicksPerHour, BidOf(p, ticks[i]))]
    IN  IF defect = "offgrid_first"
        THEN rows \o <<Snapshot(Securities[1], 1, 40)>>
        ELSE IF defect = "offgrid_last"
        THEN rows \o <<Snapshot(Securities[1], (n - 1) * TicksPerHour + 1, 41)>>
        ELSE IF defect = "duplicate"
        THEN rows \o <<Snapshot(Securities[1], 0, 42)>>
        ELSE rows

\* the snapshots of the second security: m hourly ticks starting off the hour
SecondSecurity(m) ==
    [k \in 1..m |-> Snapshot(Securities[2], 1 + (k - 1) * TicksPerHour, 3 * k)]

Reverse(s) == [i \in 1..Len(s) |-> s[Len(s) + 1 - i]]

(***************************************************************************)
(* StdevProcessor.load_data and fill_missing_timestamps                    *)
(***************************************************************************)
MaxSnapTime == (MaxTicks + MaxOther + 1) * TicksPerHour

\* sort_values(["security_id", "snap_time"])
SecurityTimeKey(r) == r.security_id * (MaxSnapTime + 1) + r.snap_time
SortedSnapshots(t) == sort_values(t, [i \in 1..Len(t) |-> SecurityTimeKey(t[i])])

\* df.groupby("security_id"): the keys in ascending order, each with its rows
GroupKeys(t) ==
    SelectSeq(Securities, LAMBDA sec : \E i \in 1..Len(t) : t[i].security_id = sec)
Group(t, sec) == SelectSeq(t, LAMBDA r : r.security_id = sec)

NeverDuplicated(g) == FALSE
\* reindexing raises ValueError when the index holds a label twice
HasDuplicateIndex(g) ==
    \E i, j \in 1..Len(g) : i # j /\ g[i].snap_time = g[j].snap_time

SetMin(S) == CHOOSE x \in S : \A y \in S : x <= y
SetMax(S) == CHOOSE x \in S : \A y \in S : y <= x

\* group.set_index("snap_time").asfreq(freq): one row per tick of the
\* frequency from the first to the last index value; a tick that is an index
\* value keeps that row's columns, any other tick gets NaN
asfreq(g, sec, freq) ==
    LET times == {g[i].snap_time : i \in 1..Len(g)}
        first == SetMin(times)
        last == SetMax(times)
        count == ((last - first) \div freq) + 1
    IN  [k \in 1..count |->
            LET tick == first + (k - 1) * freq
                hit == {i \in 1..Len(g) : g[i].snap_time = tick}
            IN  IF hit = {}
                THEN [security_id |-> sec, snap_time |-> tick,
                      bid |-> NA, mid |-> NA, ask |-> NA]
                ELSE [g[CHOOSE i \in hit : TRUE] EXCEPT !.security_id = sec]]

\* freq="1h"
Hour == TicksPerHour

FillRaises(t) == \E k \in 1..Len(GroupKeys(t)) : HasDuplicateIndex(Group(t, GroupKeys(t)[k]))

\* the table fill_missing_timestamps stores in self.df
FilledGrid(t, freq) ==
    LET keys == GroupKeys(t)
    IN  Concat([k \in 1..Len(keys) |-> asfreq(Group(t, keys[k]), keys[k], freq)])

(***************************************************************************)
(* StdevProcessor.compute_rolling_stdev                                    *)
(***************************************************************************)
\* min_periods=20
MinPeriods == 20
RECURSIVE SeqSum(_)
SeqSum(s) == IF s = <<>> THEN 0 ELSE Head(s) + SeqSum(Tail(s))

\* a standard deviation is kept as the fraction it is the square root of
Sqrt(x) == [sqrt_of |-> x]

PopulationVariance(xs) ==
    LET N == Len(xs)
        S == SeqSum(xs)
        Q == SeqSum([i \in 1..N |-> xs[i] * xs[i]])
    IN  Rat(N * Q - S * S, N * N)

\* variance with ddof=1: (sum x^2 - (sum x)^2 / N) / (N - 1)
SampleVariance(xs) ==
    LET N == Len(xs)
        S == SeqSum(xs)
        Q == SeqSum([i \in 1..N |-> xs[i] * xs[i]])
    IN  Rat(N * Q - S * S, N * (N - 1))

\* the non-NaN values of column col in the w rows of g ending at row i
WindowValues(g, col, i, w) ==
    LET lo == IF i - w + 1 < 1 THEN 1 ELSE i - w + 1
        cells == [k \in 1..(i - lo + 1) |-> g[lo + k - 1][col]]
        present == SelectSeq(cells, LAMBDA c : ~isna(c))
    IN  [k \in 1..Len(present) |-> Val(present[k])]

\* rolling(window=w, min_periods=mp).std(ddof=1) at row i of one group
RollingStd(g, col, i, w, mp) ==
    LET xs == WindowValues(g, col, i, w)
    IN  IF Len(xs) < mp \/ Len(xs) - 1 <= 0 THEN NA
        ELSE Some(Sqrt(SampleVariance(xs)))

\* df.groupby("security_id").rolling(window=w, min_periods=mp, on="snap_time")
\*   .std(ddof=1): the groups one after the other, each rolled on its own
Rolled(t, w, mp) ==
    LET keys == GroupKeys(t)
    IN  Concat([k \in 1..Len(keys) |->
            LET g == Group(t, keys[k])
            IN  [i \in 1..Len(g) |->
                    [security_id |-> keys[k], snap_time |-> g[i].snap_time,
                     bid |-> RollingStd(g, "bid", i, w, mp),
                     mid |-> RollingStd(g, "mid", i, w, mp),
                     ask |-> RollingStd(g, "ask", i, w, mp)]]])

\* rolling() raises ValueError when min_periods exceeds an integer window
RollingRaises(w, mp) == mp > w

(***************************************************************************)
(* StdevProcessor: state machine.                                          *)
(***************************************************************************)
Windows == (MinPeriods - 1)..(MinPeriods + 1)

\* load_data: reads the snapshot file and sorts it by security and time
Stdev_load_data ==
    /\ spc = "new"
    /\ rpc = "new"
    /\ \E n \in 1..MaxTicks :
       \E gap \in {0} \cup 1..(n - 2) :
       \E defect \in Defects :
       \E p \in Patterns :
       \E m \in 0..MaxOther :
          LET file == Reverse(FirstSecurity(n, gap, defect, p) \o SecondSecurity(m))
          IN  /\ snap_file' = file
              /\ df' = SortedSnapshots(file)
    /\ spc' = "loaded"
    /\ UNCHANGED <<window, stdev_result_df, rates_vars>>

\* fill_missing_timestamps(freq="1h")
fill_missing_timestamps ==
    /\ spc = "loaded"
    /\ IF FillRaises(df)
       THEN /\ spc' = "error"
            /\ UNCHANGED df
       ELSE /\ spc' = "filled"
            /\ df' = FilledGrid(df, Hour)
    /\ UNCHANGED <<snap_file, window, stdev_result_df, rates_vars>>

\* compute_rolling_stdev(window=w)
compute_rolling_stdev ==
    /\ spc \in {"loaded", "filled"}
    /\ \E w \in Windows :
          /\ window' = w
          /\ IF FillRaises(df)
             THEN /\ spc' = "error"
                  /\ UNCHANGED <<df, stdev_result_df>>
             ELSE /\ df' = FilledGrid(df, Hour)
                  /\ IF RollingRaises(w, MinPeriods)
                     THEN /\ spc' = "error"
                          /\ UNCHANGED stdev_result_df
                     ELSE /\ spc' = "computed"
                          /\ stdev_result_df' = Some(Rolled(FilledGrid(df, Hour), w, MinPeriods))
    /\ UNCHANGED <<snap_file, rates_vars>>

NextStdev == Stdev_load_data \/ fill_missing_timestamps \/ compute_rolling_stdev

SpecStdev == Init /\ [][NextStdev]_vars

Next == NextRates \/ NextStdev

Spec == Init /\ [][Next]_vars

(***************************************************************************)
(* RatesProcessor: properties.                                             *)
(***************************************************************************)
Rows(t) == {t[i] : i \in 1..Len(t)}
Computed == rpc = "computed"
Result == Val(rates_result_df)

\* spot observations a price row at time T of pair k may take its rate from:
\* same pair, not later than T, at most one hour old
Qualifying(T, k) ==
    {s \in Rows(spot_df) :
        s.ccy_pair = k /\ s.timestamp <= T /\ T - s.timestamp <= TicksPerHour}

\* C1: after compute_new_prices every output row joined with a rule whose
\* convert_price is false has final_price equal to its price exactly, and so
\* never a diagnostic string, whatever the rule's conversion_factor and
\* whether or not a spot rate was found for the row.
C1_NoConversionKeepsPrice ==
    Computed =>
        \A r \in Rows(Result) :
            r.convert_price = Some(FALSE) => r.final_price = Float(r.price)

\* a row with convert_price = false whose rule has no conversion_factor and
\* for which no spot rate qualifies still has final_price = price
C1_Witness ==
    /\ Computed
    /\ \E r \in Rows(Result) :
          /\ r.convert_price = Some(FALSE)
          /\ r.final_price = Float(r.price)
          /\ Qualifying(r.timestamp, r.ccy_pair) = {}
          /\ \A c \in Rows(ccy_df) :
                c.ccy_pair = r.ccy_pair => isna(c.conversion_factor)

\* C2: after compute_new_prices every output row with convert_price = true,
\* a present conversion_factor and a present spot_mid_rate has a numeric
\* final_price F with F = price / conversion_factor + spot_mid_rate (stated
\* cross-multiplied); price 11000, factor 100, rate 1.2 gives 111.2.
C2_ConversionFormula ==
    Computed =>
        \A r \in Rows(Result) :
            (/\ r.convert_price = Some(TRUE)
             /\ ~isna(r.conversion_factor)
             /\ ~isna(r.spot_mid_rate))
            => LET P == r.price
                   C == Val(r.conversion_factor)
                   R == Val(r.spot_mid_rate)
               IN  /\ r.final_price.kind = "float"
                   /\ r.final_price.num.n * (P.d * C.n * R.d)
                        = r.final_price.num.d * (P.n * C.d * R.d + R.n * P.d * C.n)
                   /\ (P = Rat(11000, 1) /\ C = Rat(100, 1) /\ R = Rat(12, 10))
                        => r.final_price = Float(Rat(1112, 10))

\* the row of the example: 11000 / 100 + 1.2 = 111.2
C2_Witness ==
    /\ Computed
    /\ \E r \in Rows(Result) :
          /\ r.convert_price = Some(TRUE)
          /\ r.price = Rat(11000, 1)
          /\ r.conversion_factor = Some(Rat(100, 1))
          /\ r.spot_mid_rate = Some(Rat(12, 10))
          /\ r.final_price = Float(Rat(1112, 10))

\* the diagnostic for each combination of absent fields, written out
ExpectedDiagnostic(cpNA, cfNA, rateNA) ==
    IF cpNA
    THEN IF cfNA
         THEN IF rateNA THEN "missing convert_price, conversion_factor, spot_mid_rate"
              ELSE "missing convert_price, conversion_factor"
         ELSE IF rateNA THEN "missing convert_price, spot_mid_rate"
              ELSE "missing convert_price"
    ELSE IF cfNA
         THEN IF rateNA THEN "missing conversion_factor, spot_mid_rate"
              ELSE "missing conversion_factor"
         ELSE "missing spot_mid_rate"

NeedsDiagnostic(r) ==
    \/ isna(r.convert_price)
    \/ /\ r.convert_price = Some(TRUE)
       /\ (isna(r.conversion_factor) \/ isna(r.spot_mid_rate))

\* C3: after compute_new_prices every output row whose convert_price is
\* absent, or whose convert_price is true with conversion_factor or
\* spot_mid_rate absent, has as final_price the string "missing " followed by
\* exactly its absent fields among convert_price, conversion_factor,
\* spot_mid_rate, in that order, joined by ", ".
C3_Diagnostic ==
    Computed =>
        \A r \in Rows(Result) :
            NeedsDiagnostic(r) =>
                r.final_price = Str(ExpectedDiagnostic(isna(r.convert_price),
                                                       isna(r.conversion_factor),
                                                       isna(r.spot_mid_rate)))

\* a row with convert_price = true and both other fields absent
C3_Witness ==
    /\ Computed
    /\ \E r \in Rows(Result) :
          /\ r.convert_price = Some(TRUE)
          /\ isna(r.conversion_factor)
          /\ isna(r.spot_mid_rate)
          /\ r.final_price = Str("missing conversion_factor, spot_mid_rate")

Joined == get_recent_spot_rate(price_df, spot_df)

\* C4: in the result of _get_recent_spot_rate every price row (T, k) carries
\* the rate of a spot observation of pair k with the greatest timestamp S
\* such that S <= T and T - S <= 1 hour, and an absent rate when no such
\* observation exists.
C4_AsOfRate ==
    (rpc # "new") =>
        /\ \A p \in Rows(price_df) :
              \E j \in Rows(Joined) :
                 j.timestamp = p.timestamp /\ j.ccy_pair = p.ccy_pair /\ j.price = p.price
        /\ \A j \in Rows(Joined) :
              LET Q == Qualifying(j.timestamp, j.ccy_pair)
              IN  IF Q = {} THEN isna(j.spot_mid_rate)
                  ELSE \E s \in Q :
                          /\ \A q \in Q : q.timestamp <= s.timestamp
                          /\ j.spot_mid_rate = Some(s.spot_mid_rate)

\* a price row takes the rate observed exactly one hour before it while a
\* later observation of its pair exists
C4_Witness ==
    /\ Computed
    /\ \E j \in Rows(Joined) :
       \E s, u \in Rows(spot_df) :
          /\ s.ccy_pair = j.ccy_pair
          /\ j.timestamp - s.timestamp = TicksPerHour
          /\ j.spot_mid_rate = Some(s.spot_mid_rate)
          /\ u.ccy_pair = j.ccy_pair
          /\ u.timestamp > j.timestamp

PriceKey(r) == [timestamp |-> r.timestamp, ccy_pair |-> r.ccy_pair, price |-> r.price]
CountRows(t, key) == Cardinality({i \in 1..Len(t) : PriceKey(t[i]) = key})
RulesOf(k) == Cardinality({i \in 1..Len(ccy_df) : ccy_df[i].ccy_pair = k})
UniqueRules == \A k \in PairSet : RulesOf(k) <= 1

\* C5 as stated: for any contents of the three tables result_df holds exactly
\* one row per input price row.
C5_OneRowPerPrice ==
    Computed =>
        \A key \in PriceRows : CountRows(Result, key) = CountRows(price_df, key)

\* C5 amended: a price row whose pair has at most one rule row appears exactly
\* once in result_df (pairs without spot rate or without rule included); a
\* pair with n > 1 rule rows yields n output rows per price row.
C5_OneRowPerPricePerRule ==
    Computed =>
        \A key \in PriceRows :
            CountRows(Result, key) =
                CountRows(price_df, key)
                  * (IF RulesOf(key.ccy_pair) = 0 THEN 1 ELSE RulesOf(key.ccy_pair))

\* two price rows of different pairs, one with a rule and one without, and
\* no spot rate at all: both are in result_df
C5_Witness ==
    /\ Computed
    /\ UniqueRules
    /\ Len(price_df) = 2
    /\ price_df[1].ccy_pair # price_df[2].ccy_pair
    /\ RulesOf(price_df[1].ccy_pair) = 1
    /\ RulesOf(price_df[2].ccy_pair) = 0
    /\ spot_df = <<>>
    /\ Len(Result) = 2

(***************************************************************************)
(* StdevProcessor: properties.                                             *)
(***************************************************************************)
StdevResult == Val(stdev_result_df)
Gridded == spc \in {"filled", "computed"}
SnapsOf(sec) == {r \in Rows(snap_file) : r.security_id = sec}
SnapTimes(sec) == {r.snap_time : r \in SnapsOf(sec)}
InputSecurities == {r.security_id : r \in Rows(snap_file)}
Populated(r) == ~isna(r.bid) \/ ~isna(r.mid) \/ ~isna(r.ask)
Columns == {"bid", "mid", "ask"}

\* C6: after fill_missing_timestamps every security has exactly
\* floor((last - first) / 1h) + 1 grid rows, one per hourly tick from its first
\* snap_time on; the rows holding values are exactly the snap_times of that
\* security's input snapshots, each with the values of its snapshot, and
\* every other row has bid, mid and ask absent.
C6_GridHoldsEverySnapshot ==
    Gridded =>
        \A sec \in InputSecurities :
            LET g == Group(df, sec)
                first == SetMin(SnapTimes(sec))
                last == SetMax(SnapTimes(sec))
            IN  /\ Len(g) = ((last - first) \div TicksPerHour) + 1
                /\ \A k \in 1..Len(g) :
                      /\ g[k].snap_time = first + (k - 1) * TicksPerHour
                      /\ Populated(g[k]) =>
                            \E r \in SnapsOf(sec) :
                               /\ r.snap_time = g[k].snap_time
                               /\ r.bid = g[k].bid /\ r.mid = g[k].mid /\ r.ask = g[k].ask
                      /\ ~Populated(g[k]) =>
                            isna(g[k].bid) /\ isna(g[k].mid) /\ isna(g[k].ask)
                /\ {g[k].snap_time : k \in {i \in 1..Len(g) : Populated(g[i])}}
                      = SnapTimes(sec)

\* the positions among the w rows of g ending at row i whose col is not absent
Observed(g, col, i, w) ==
    SelectSeq([k \in 1..Len(g) |-> k],
              LAMBDA k : k > i - w /\ k <= i /\ ~isna(g[k][col]))

\* s is the sample standard deviation (divisor N - 1) of column col at the
\* positions idx of g: s^2 * N^2 * (N - 1) = sum (N * x - sum x)^2
IsSampleStd(s, g, col, idx) ==
    LET N == Len(idx)
        S == SeqSum([k \in 1..N |-> Val(g[idx[k]][col])])
        D == SeqSum([k \in 1..N |->
                (N * Val(g[idx[k]][col]) - S) * (N * Val(g[idx[k]][col]) - S)])
    IN  s.sqrt_of.n * (N * N * (N - 1)) = s.sqrt_of.d * D

\* C7: with window = 20 the statistic of each security and column at grid
\* position i is present exactly when the trailing 20 positions of that
\* security's own grid hold at least 20 non-absent values, and is then their
\* sample standard deviation.
C7_RollingStd20 ==
    (spc = "computed" /\ window = 20) =>
        \A sec \in InputSecurities :
            LET g == Group(df, sec)
                r == Group(StdevResult, sec)
            IN  /\ Len(r) = Len(g)
                /\ \A i \in 1..Len(g) : \A col \in Columns :
                      LET idx == Observed(g, col, i, 20)
                      IN  /\ r[i].snap_time = g[i].snap_time
                          /\ ~isna(r[i][col]) <=> Len(idx) >= 20
                          /\ ~isna(r[i][col]) => IsSampleStd(Val(r[i][col]), g, col, idx)

\* two securities; the first is fully populated over at least 21 ticks, its
\* statistics are absent up to position 18 and present at positions 19 and
\* 20; the second, shorter one has none
C7_Witness ==
    /\ spc = "computed"
    /\ window = 20
    /\ Cardinality(InputSecurities) = 2
    /\ LET g == Group(df, Securities[1])
           r == Group(StdevResult, Securities[1])
           o == Group(StdevResult, Securities[2])
       IN  /\ Len(g) >= 21
           /\ \A i \in 1..Len(g) : Populated(g[i])
           /\ \A i \in 1..19 : isna(r[i].bid)
           /\ ~isna(r[20].bid) /\ ~isna(r[21].bid)
           /\ r[20].bid # r[20].mid
           /\ \A i \in 1..Len(o) : isna(o[i].bid) /\ isna(o[i].mid) /\ isna(o[i].ask)

\* one security, hourly snapshots from its first tick on, exactly one tick
\* missing, at a grid position after position 19
SingleLateGap ==
    /\ InputSecurities = {Securities[1]}
    /\ ~FillRaises(snap_file)
    /\ \A x \in SnapTimes(Securities[1]) : x % TicksPerHour = 0
    /\ Cardinality({k \in 0..(SetMax(SnapTimes(Securities[1])) \div TicksPerHour) :
                      k * TicksPerHour \notin SnapTimes(Securities[1])}) = 1
    /\ \A k \in 0..19 : k * TicksPerHour \in SnapTimes(Securities[1])

\* C8: with a single missing tick after grid position 19 and window = 20 the
\* grid has an absent row at the missing tick and the bid statistic is
\* non-absent at every position from 19 on, the gap position holding the
\* statistic of the position before it.
C8_GapForwardFilled ==
    (spc = "computed" /\ window = 20 /\ SingleLateGap) =>
        LET g == Group(df, Securities[1])
            r == Group(StdevResult, Securities[1])
        IN  /\ \E i \in 1..Len(g) : ~Populated(g[i])
            /\ \A i \in 20..Len(r) :
                  /\ ~isna(r[i].bid)
                  /\ ~Populated(g[i]) => r[i].bid = r[i - 1].bid

\* compute_rolling_stdev(window) has been called on a table without
\* duplicate snapshots
RollingCalled == window # 0 /\ ~FillRaises(snap_file)

\* C9: for every window size W >= 1 the call succeeds and a statistic is
\* present exactly at the positions whose trailing W grid positions hold W
\* non-absent values.
C9_MinPeriodsIsWindow ==
    (RollingCalled /\ window >= 1) =>
        /\ spc = "computed"
        /\ \A sec \in InputSecurities :
              LET g == Group(df, sec)
                  r == Group(StdevResult, sec)
              IN  \A i \in 1..Len(g) : \A col \in Columns :
                     ~isna(r[i][col]) <=> Len(Observed(g, col, i, window)) = window

(***************************************************************************)
(* Duplicate rows in the source tables.                                    *)
(***************************************************************************)
DupPrice ==
    \E i, j \in 1..Len(price_df) :
       /\ i # j
       /\ price_df[i].timestamp = price_df[j].timestamp
       /\ price_df[i].ccy_pair = price_df[j].ccy_pair
DupSpot ==
    \E i, j \in 1..Len(spot_df) :
       /\ i # j
       /\ spot_df[i].timestamp = spot_df[j].timestamp
       /\ spot_df[i].ccy_pair = spot_df[j].ccy_pair
DupSnap ==
    \E i, j \in 1..Len(snap_file) :
       /\ i # j
       /\ snap_file[i].snap_time = snap_file[j].snap_time
       /\ snap_file[i].security_id = snap_file[j].security_id

\* what is left of a snapshot table whose processing was refused
StdevRefused ==
    /\ spc = "error"
    /\ isna(stdev_result_df)
    /\ df = SortedSnapshots(snap_file)

\* C10 as stated: a source table with two rows of the same (timestamp,
\* instrument key) makes its pipeline fail before any computation: no
\* result_df is produced and the loaded tables are left unchanged.
C10_DuplicatesAreFatal ==
    /\ (DupPrice \/ DupSpot) => isna(rates_result_df)
    /\ (DupSnap /\ spc \notin {"new", "loaded"}) => StdevRefused

\* C10 amended: only duplicate snapshots are fatal (compute_rolling_stdev and
\* fill_missing_timestamps raise, produce no result_df and leave df as
\* loaded); duplicate price or spot rows are not detected: compute_new_prices
\* completes, sorts its price and spot tables in place and result_df holds
\* every price row.
C10_OnlySnapshotDuplicatesAreFatal ==
    /\ (DupSnap /\ spc \notin {"new", "loaded"}) => StdevRefused
    /\ (Computed /\ (DupPrice \/ DupSpot)) =>
          /\ ~isna(rates_result_df)
          /\ price_df = SortedPrice(price_df)
          /\ spot_df = SortedSpot(spot_df)
          /\ \A key \in PriceRows : CountRows(Result, key) >= CountRows(price_df, key)
          /\ \A r \in Rows(Result) :
                Mask(r) \/ isna(r.spot_mid_rate)
                  \/ \E s \in Qualifying(r.timestamp, r.ccy_pair) :
                        r.spot_mid_rate = Some(s.spot_mid_rate)

\* two spot rows with the same timestamp and pair, and a price row that was
\* priced with the rate of the later one of them
C10_Witness ==
    /\ Computed
    /\ DupSpot
    /\ \E r \in Rows(Result) :
          /\ r.final_price.kind = "str"
          /\ Len(spot_df) = 2
          /\ r.spot_mid_rate = Some(spot_df[2].spot_mid_rate)
          /\ r.timestamp = spot_df[2].timestamp

(***************************************************************************)
(* The joined fields output with final_price.                              *)
(***************************************************************************)
\* the rule rows of pair k, or none
RulesFor(k) == {c \in Rows(ccy_df) : c.ccy_pair = k}

\* C11: in every row of result_df, rows with convert_price = false included,
\* spot_mid_rate is absent or the rate of a spot observation of the same pair
\* at most one hour before the row's timestamp, and conversion_factor is the
\* value of the rule the row was joined with (absent when the pair has no
\* rule or the rule has none): computing final_price does not alter the
\* joined fields.
C11_JoinedFieldsKept ==
    Computed =>
        \A r \in Rows(Result) :
            /\ \/ isna(r.spot_mid_rate)
               \/ \E s \in Qualifying(r.timestamp, r.ccy_pair) :
                     r.spot_mid_rate = Some(s.spot_mid_rate)
            /\ IF RulesFor(r.ccy_pair) = {}
               THEN isna(r.conversion_factor)
               ELSE \E c \in RulesFor(r.ccy_pair) :
                       /\ c.convert_price = r.convert_price
                       /\ c.conversion_factor = r.conversion_factor

=============================================================================
